---- MODULE Spec2Model ----
(***************************************************************************)
(* Model of czor/main.c: a harness that calls the external function        *)
(* upples with four string literals, prints the int32_t it returns with    *)
(* printf("UPPLES: %d\n", res) and returns it from main.                   *)
(*                                                                         *)
(* Two independent runs of the program are modelled side by side (Runs),   *)
(* so that statements comparing two runs are state predicates.  Text is a  *)
(* sequence of one-character strings.                                      *)
(***************************************************************************)
EXTENDS Integers, Sequences, FiniteSets

\* ---------------------------------------------------------------- bounds
\* Half-width of the windows of upples return values explored around the
\* interesting points of the int32_t range.
Span == 1

\* ------------------------------------------------------------- constants
INT32_MAX == 2147483647
INT32_MIN == (-INT32_MAX) - 1

Runs == {1, 2}

\* The four literals handed to upples.
ADDR == "127.0.0.1:3000"
APP  == "/home/ivan/github/spin/examples/http-rust/spin.toml"
TMP  == "./TEMPYWEMPY"
LOG  == "./LOGGLYWOGGLY"

\* A format string whose trailing newline was forgotten.
FormatNoNewline == <<"U", "P", "P", "L", "E", "S", ":", " ", "%", "d">>

\* The printf format string "UPPLES: %d\n".
Format == <<"U", "P", "P", "L", "E", "S", ":", " ", "%", "d", "\n">>

\* Values upples may return: windows around INT32_MIN, -256, 0, 256 and
\* INT32_MAX (so -1, 255, 256, 257 ... are all present).
ReturnValues ==
    {INT32_MIN + i : i \in 0..Span} \cup {INT32_MAX - i : i \in 0..Span}
      \cup UNION {(c - Span)..(c + Span) : c \in {-256, 0, 256}}

\* What a process is started with: command line, environment and working
\* directory.  main() takes no parameters and reads none of it.
Contexts ==
    { [argv |-> <<"czor">>, environ |-> {}, cwd |-> "/"],
      [argv |-> <<"czor", "--listen", "0.0.0.0:80">>, environ |-> {}, cwd |-> "/"],
      [argv |-> <<"czor", "--listen", "0.0.0.0:80">>,
       environ |-> {"SPIN_ADDRESS=0.0.0.0:80", "TMPDIR=/var/tmp"},
       cwd |-> "/home/ivan"] }

VARIABLES
    pc,          \* position of main in each run
    argv,        \* command line of the run
    environ,     \* environment of the run
    cwd,         \* working directory of the run
    calls,       \* argument tuples upples has been called with, in order
    res,         \* the local int32_t res of main
    stdout,      \* characters written to standard output
    stderr,      \* characters written to standard error
    mainRet,     \* the value main returned
    exitStatus   \* the exit status a waiting parent reads

vars == <<pc, argv, environ, cwd, calls, res, stdout, stderr, mainRet, exitStatus>>

\* ------------------------------------------------------ printf("%d", n)
DigitChar(d) == <<"0", "1", "2", "3", "4", "5", "6", "7", "8", "9">>[d + 1]

\* Decimal digits of -m for m <= 0, most significant first.  The magnitude
\* is peeled off the non-positive number, so INT32_MIN needs no negation.
RECURSIVE NegDigits(_)
NegDigits(m) ==
    IF m = 0 THEN <<>>
    ELSE LET d == (10 - (m % 10)) % 10
         IN  NegDigits((m + d) \div 10) \o <<DigitChar(d)>>

\* A conversion that loses the sign of its argument.
FormatDAbs(n) == IF n = 0 THEN <<"0">> ELSE NegDigits(IF n < 0 THEN n ELSE -n)

\* The %d conversion: optional minus sign, digits without leading zeros.
FormatD(n) ==
    IF n = 0 THEN <<"0">>
    ELSE IF n < 0 THEN <<"-">> \o NegDigits(n)
    ELSE NegDigits(-n)

\* printf with one int argument: ordinary characters are copied, the
\* conversion %d is replaced by the decimal form of the argument.
RECURSIVE Printf(_, _)
Printf(fmt, arg) ==
    IF fmt = <<>> THEN <<>>
    ELSE IF Len(fmt) >= 2 /\ fmt[1] = "%" /\ fmt[2] = "d"
         THEN FormatD(arg) \o Printf(SubSeq(fmt, 3, Len(fmt)), arg)
         ELSE <<fmt[1]>> \o Printf(Tail(fmt), arg)

\* ------------------------------------------------------ exit status
\* Bit i of the two's complement representation of n.
Bit(n, i) == (n \div (2 ^ i)) % 2

\* The status a parent reads after main returns n: the low eight bits of n.
RECURSIVE LowBits(_, _)
LowBits(n, k) ==
    IF k = 0 THEN 0 ELSE LowBits(n, k - 1) + Bit(n, k - 1) * (2 ^ (k - 1))

\* A status that is handed to the parent at full width.
WaitStatusFull(n) == n

WaitStatus(n) == LowBits(n, 8)

\* ------------------------------------------------------------ behaviour
Init ==
    /\ pc = [r \in Runs |-> "start"]
    /\ \E c \in [Runs -> Contexts] :
          /\ argv = [r \in Runs |-> c[r].argv]
          /\ environ = [r \in Runs |-> c[r].environ]
          /\ cwd = [r \in Runs |-> c[r].cwd]
    /\ calls = [r \in Runs |-> <<>>]
    /\ res = [r \in Runs |-> 0]
    /\ stdout = [r \in Runs |-> <<>>]
    /\ stderr = [r \in Runs |-> <<>>]
    /\ mainRet = [r \in Runs |-> 0]
    /\ exitStatus = [r \in Runs |-> 0]

\* A call that takes the bind address from the command line when one is given.
CallFromArgv(r) ==
    /\ pc[r] = "start"
    /\ LET addr == IF Len(argv[r]) >= 3 THEN argv[r][3] ELSE ADDR
       IN  calls' = [calls EXCEPT ![r] = Append(@, <<addr, APP, TMP, LOG>>)]
    /\ pc' = [pc EXCEPT ![r] = "called"]
    /\ UNCHANGED <<argv, environ, cwd, res, stdout, stderr, mainRet, exitStatus>>

\* main calls upples(ADDR, APP, TMP, LOG).
Call(r) ==
    /\ pc[r] = "start"
    /\ calls' = [calls EXCEPT ![r] = Append(@, <<ADDR, APP, TMP, LOG>>)]
    /\ pc' = [pc EXCEPT ![r] = "called"]
    /\ UNCHANGED <<argv, environ, cwd, res, stdout, stderr, mainRet, exitStatus>>

\* upples returns some int32_t, which initialises res.
UpplesReturn(r) ==
    /\ pc[r] = "called"
    /\ \E R \in ReturnValues : res' = [res EXCEPT ![r] = R]
    /\ pc' = [pc EXCEPT ![r] = "returned"]
    /\ UNCHANGED <<argv, environ, cwd, calls, stdout, stderr, mainRet, exitStatus>>

\* A main that calls upples again when the first call reported a failure.
PrintOrRetry(r) ==
    /\ pc[r] = "returned"
    /\ IF res[r] # 0 /\ Len(calls[r]) < 2
       THEN /\ calls' = [calls EXCEPT ![r] = Append(@, <<ADDR, APP, TMP, LOG>>)]
            /\ pc' = [pc EXCEPT ![r] = "called"]
            /\ UNCHANGED stdout
       ELSE /\ stdout' = [stdout EXCEPT ![r] = @ \o Printf(Format, res[r])]
            /\ pc' = [pc EXCEPT ![r] = "printed"]
            /\ UNCHANGED calls
    /\ UNCHANGED <<argv, environ, cwd, res, stderr, mainRet, exitStatus>>

\* A main that reports the number of command-line arguments with the status.
PrintLineWithArgc(r) ==
    /\ pc[r] = "returned"
    /\ stdout' = [stdout EXCEPT ![r] =
                    @ \o Printf(Format, res[r]) \o Printf(Format, Len(argv[r]))]
    /\ pc' = [pc EXCEPT ![r] = "printed"]
    /\ UNCHANGED <<argv, environ, cwd, calls, res, stderr, mainRet, exitStatus>>

\* printf("UPPLES: %d\n", res);
PrintLine(r) ==
    /\ pc[r] = "returned"
    /\ stdout' = [stdout EXCEPT ![r] = @ \o Printf(Format, res[r])]
    /\ pc' = [pc EXCEPT ![r] = "printed"]
    /\ UNCHANGED <<argv, environ, cwd, calls, res, stderr, mainRet, exitStatus>>

\* A main that returns only the low byte of res.
ExitMasked(r) ==
    /\ pc[r] = "printed"
    /\ mainRet' = [mainRet EXCEPT ![r] = WaitStatus(res[r])]
    /\ exitStatus' = [exitStatus EXCEPT ![r] = WaitStatus(res[r])]
    /\ pc' = [pc EXCEPT ![r] = "exited"]
    /\ UNCHANGED <<argv, environ, cwd, calls, res, stdout, stderr>>

\* A main that waits forever after printing instead of returning.
ExitSpin(r) ==
    /\ pc[r] = "printed"
    /\ UNCHANGED vars

\* A main that may return before the line has been printed.
ExitEarly(r) ==
    /\ pc[r] \in {"returned", "printed"}
    /\ mainRet' = [mainRet EXCEPT ![r] = res[r]]
    /\ exitStatus' = [exitStatus EXCEPT ![r] = WaitStatus(res[r])]
    /\ pc' = [pc EXCEPT ![r] = "exited"]
    /\ UNCHANGED <<argv, environ, cwd, calls, res, stdout, stderr>>

\* return res;
Exit(r) ==
    /\ pc[r] = "printed"
    /\ mainRet' = [mainRet EXCEPT ![r] = res[r]]
    /\ exitStatus' = [exitStatus EXCEPT ![r] = WaitStatus(res[r])]
    /\ pc' = [pc EXCEPT ![r] = "exited"]
    /\ UNCHANGED <<argv, environ, cwd, calls, res, stdout, stderr>>

Next == \E r \in Runs : Call(r) \/ UpplesReturn(r) \/ PrintLine(r) \/ Exit(r)

Spec == Init /\ [][Next]_vars

\* main is a straight-line sequential program: each of its steps is taken
\* once it is enabled, and the call to upples runs to completion.
Fairness ==
    \A r \in Runs :
        /\ WF_vars(Call(r))
        /\ WF_vars(UpplesReturn(r))
        /\ WF_vars(PrintLine(r))
        /\ WF_vars(Exit(r))

LiveSpec == Spec /\ Fairness

\* -------------------------------------------------- reading a line back
\* These operators read printed text independently of the way Printf
\* produced it.
Prefix == <<"U", "P", "P", "L", "E", "S", ":", " ">>

DigitSet == {"0", "1", "2", "3", "4", "5", "6", "7", "8", "9"}

DigitValue(c) ==
    CASE c = "0" -> 0 [] c = "1" -> 1 [] c = "2" -> 2 [] c = "3" -> 3
      [] c = "4" -> 4 [] c = "5" -> 5 [] c = "6" -> 6 [] c = "7" -> 7
      [] c = "8" -> 8 [] c = "9" -> 9

\* Minus the number a digit string denotes (accumulated below zero so that
\* the digits of INT32_MIN can be read).
RECURSIVE NegValue(_)
NegValue(ds) ==
    IF ds = <<>> THEN 0
    ELSE NegValue(SubSeq(ds, 1, Len(ds) - 1)) * 10 - DigitValue(ds[Len(ds)])

\* body is a decimal numeral (optional minus, at least one and at most ten
\* digits) that denotes v.
Shows(body, v) ==
    LET neg == body # <<>> /\ body[1] = "-"
        ds  == IF neg THEN Tail(body) ELSE body
    IN  /\ ds # <<>>
        /\ Len(ds) <= 10
        /\ \A i \in 1..Len(ds) : ds[i] \in DigitSet
        /\ IF neg THEN v < 0 /\ NegValue(ds) = v
                  ELSE v >= 0 /\ NegValue(ds) = -v

\* body is the signed decimal form of v: it denotes v and has no leading
\* zero and no minus sign in front of zero.
IsSignedDecimal(body, v) ==
    /\ Shows(body, v)
    /\ LET ds == IF body[1] = "-" THEN Tail(body) ELSE body
       IN  Len(ds) > 1 => ds[1] # "0"

NewlineCount(out) == Cardinality({i \in 1..Len(out) : out[i] = "\n"})

\* The text between "UPPLES: " and the final newline of a line.
ShownPart(out) == SubSeq(out, Len(Prefix) + 1, Len(out) - 1)

\* out is exactly one line with the "UPPLES: " prefix.
IsOneLine(out) ==
    /\ Len(out) >= Len(Prefix) + 2
    /\ SubSeq(out, 1, Len(Prefix)) = Prefix
    /\ out[Len(out)] = "\n"
    /\ NewlineCount(out) = 1

Returned(r) == pc[r] \in {"returned", "printed", "exited"}
Printed(r)  == pc[r] \in {"printed", "exited"}
Exited(r)   == pc[r] = "exited"

\* ------------------------------------------------------------------ C1
\* C1 as stated: the exit status of the process equals the value R that
\* upples returned, verbatim, also for negative R and for R above 255.
C1_ExitStatusVerbatim ==
    \A r \in Runs : Exited(r) => exitStatus[r] = res[r]

\* C1 amended: main returns R verbatim for every R; the exit status of the
\* process equals R exactly when 0 <= R <= 255, and is congruent to R modulo
\* 256 otherwise.
C1_ReturnVerbatimStatusInByteRange ==
    \A r \in Runs :
        Exited(r) =>
            /\ mainRet[r] = res[r]
            /\ (exitStatus[r] = res[r]) <=> (res[r] \in 0..255)
            /\ exitStatus[r] % 256 = res[r] % 256

C1_Witness ==
    /\ Exited(1) /\ res[1] > 255 /\ exitStatus[1] # res[1]
    /\ Exited(2) /\ res[2] \in 1..255 /\ exitStatus[2] = res[2]

\* ------------------------------------------------------------------ C2
\* C2: once main has printed, standard output holds exactly one line,
\* "UPPLES: " followed by the signed decimal form of R and a newline;
\* before that, and besides that, nothing is written to standard output.
C2_ExactlyOneStatusLine ==
    \A r \in Runs :
        IF Printed(r)
        THEN /\ IsOneLine(stdout[r])
             /\ IsSignedDecimal(ShownPart(stdout[r]), res[r])
        ELSE stdout[r] = <<>>

C2_Witness ==
    /\ Exited(1) /\ res[1] = INT32_MIN /\ Len(stdout[1]) = Len(Prefix) + 12
    /\ Exited(2) /\ res[2] = 0 /\ Len(stdout[2]) = Len(Prefix) + 2

\* ------------------------------------------------------------------ C3
\* C3: in every run upples is called exactly once, with the four fixed
\* arguments in the order address, manifest, temporary directory, log; the
\* arguments are the same whatever the command line, environment or
\* working directory, and whatever another run did.
C3_OneCallFixedArguments ==
    /\ \A r \in Runs :
          calls[r] = IF pc[r] = "start"
                     THEN <<>>
                     ELSE << <<"127.0.0.1:3000",
                               "/home/ivan/github/spin/examples/http-rust/spin.toml",
                               "./TEMPYWEMPY",
                               "./LOGGLYWOGGLY">> >>
    /\ \A r1, r2 \in Runs :
          pc[r1] # "start" /\ pc[r2] # "start" => calls[r1] = calls[r2]

C3_Witness ==
    /\ Exited(1) /\ Exited(2)
    /\ Len(calls[1]) = 1 /\ Len(calls[2]) = 1
    /\ argv[1] # argv[2] /\ environ[1] # environ[2] /\ cwd[1] # cwd[2]

\* ------------------------------------------------------------------ C4
\* C4: every run eventually reaches process exit: the call to upples runs
\* to completion and nothing in main after it suspends or loops.
C4_EventuallyExits == <>(\A r \in Runs : Exited(r))

C4_Witness ==
    /\ Exited(1) /\ Exited(2)
    /\ Len(calls[1]) = 1 /\ Len(calls[2]) = 1

\* ------------------------------------------------------------------ C5
\* C5: main neither validates nor retries: upples is never called a second
\* time, a zero and a nonzero result lead through the same steps (one call,
\* one printed line, exit), and the value shows up only on standard output
\* and in the exit status, never on standard error.
C5_NoRetryNoBranch ==
    /\ \A r \in Runs :
          /\ Len(calls[r]) <= 1
          /\ stderr[r] = <<>>
          /\ Returned(r) => Len(calls[r]) = 1
          /\ Printed(r) => NewlineCount(stdout[r]) = 1
    /\ \A r1, r2 \in Runs :
          pc[r1] = pc[r2] =>
              /\ Len(calls[r1]) = Len(calls[r2])
              /\ NewlineCount(stdout[r1]) = NewlineCount(stdout[r2])

C5_Witness ==
    /\ Exited(1) /\ res[1] = 0
    /\ Exited(2) /\ res[2] # 0
    /\ Len(calls[2]) = 1

\* ------------------------------------------------------------------ C6
\* C6: the steps of a run happen in the order call, return, print, exit.
\* Nothing is on standard output before upples has returned, the process
\* exits only after the line is printed, and while upples has not returned
\* the only thing that can happen in the run is its return.
C6_StepOf(r) ==
    /\ pc'[r] # pc[r] =>
          <<pc[r], pc'[r]>> \in {<<"start", "called">>, <<"called", "returned">>,
                                <<"returned", "printed">>, <<"printed", "exited">>}
    /\ stdout'[r] # stdout[r] => pc[r] = "returned" /\ pc'[r] = "printed"
    /\ pc'[r] = "exited" /\ pc[r] # "exited" => stdout[r] # <<>>
    /\ (mainRet'[r] # mainRet[r] \/ exitStatus'[r] # exitStatus[r]) =>
          pc[r] = "printed" /\ pc'[r] = "exited"
    /\ pc[r] = "called" /\ pc'[r] = "called" =>
          /\ stdout'[r] = <<>>
          /\ calls'[r] = calls[r]

C6_FixedOrder ==
    /\ [](\A r \in Runs :
            /\ ~Returned(r) => stdout[r] = <<>>
            /\ Exited(r) => stdout[r] # <<>>
            /\ Printed(r) <=> stdout[r] # <<>>)
    /\ [][\A r \in Runs : C6_StepOf(r)]_vars

C6_Witness ==
    /\ pc[1] = "called" /\ stdout[1] = <<>>
    /\ Exited(2) /\ stdout[2] # <<>>

\* ------------------------------------------------------------------ C7
\* C7: the integer shown on the "UPPLES: " line equals the integer main
\* returns, for every R including INT32_MIN, -1, 0 and INT32_MAX.
C7_PrintedEqualsReturned ==
    \A r \in Runs :
        Exited(r) =>
            /\ IsOneLine(stdout[r])
            /\ Shows(ShownPart(stdout[r]), mainRet[r])

C7_Witness ==
    /\ Exited(1) /\ mainRet[1] = INT32_MIN
    /\ Exited(2) /\ mainRet[2] = INT32_MAX

\* ------------------------------------------------------------------ C8
\* C8: main returns R unchanged, the exit status a parent observes is
\* R mod 256, in 0..255; two distinct return values that agree modulo 256
\* give different printed lines and the same observed exit status.
C8_StatusIsLowByte ==
    /\ \A r \in Runs :
          Exited(r) =>
              /\ mainRet[r] = res[r]
              /\ exitStatus[r] \in 0..255
              /\ exitStatus[r] = res[r] % 256
    /\ \A r1, r2 \in Runs :
          (/\ Exited(r1) /\ Exited(r2)
           /\ res[r1] # res[r2]
           /\ res[r1] % 256 = res[r2] % 256) =>
              /\ stdout[r1] # stdout[r2]
              /\ exitStatus[r1] = exitStatus[r2]

C8_Witness ==
    /\ Exited(1) /\ res[1] = -1 /\ exitStatus[1] = 255
    /\ Exited(2) /\ res[2] = 255 /\ exitStatus[2] = 255
    /\ stdout[1] # stdout[2]

\* ------------------------------------------------------------------ C9
\* C9: two runs in which upples returns the same R print the same line and
\* exit with the same status, whatever their command line, environment and
\* working directory.
C9_FunctionOfReturnValue ==
    \A r1, r2 \in Runs :
        res[r1] = res[r2] =>
            /\ Printed(r1) /\ Printed(r2) => stdout[r1] = stdout[r2]
            /\ Exited(r1) /\ Exited(r2) =>
                  /\ mainRet[r1] = mainRet[r2]
                  /\ exitStatus[r1] = exitStatus[r2]

C9_Witness ==
    /\ Exited(1) /\ Exited(2)
    /\ res[1] = res[2] /\ res[1] # 0
    /\ argv[1] # argv[2] /\ environ[1] # environ[2] /\ cwd[1] # cwd[2]

====
